---------------------------- MODULE Spec2Model ----------------------------
(***************************************************************************)
(* Model of the PrefLib converter (src/convert_preflib.py): the order-     *)
(* string scanner, the ordinal / categorical / matching readers, the       *)
(* extension dispatcher and the DASS converter.                            *)
(*                                                                         *)
(* Text is a sequence of one-character strings.  Ranks are half-integers   *)
(* in the program (current_rank + (k-1)/2); the model stores TWICE the     *)
(* rank, so 2.5 is stored as 5 and the integer rank r as 2*r.              *)
(***************************************************************************)
EXTENDS Integers, Sequences, FiniteSets, TLC

(***************************************************************************)
(* Bounds of the model.                                                    *)
(***************************************************************************)
MaxLines == 2
MaxAlts == 3
MaxVoters == 2
MaxRankings == 2
MaxMainLines == 1
MaxOrderLen == 4
MaxGenAlternatives == 3
MaxExperts == 2
MaxClusters == 3

(***************************************************************************)
(* Characters and Python's str / int primitives.                           *)
(***************************************************************************)
Digits == {"0", "1", "2", "3", "4", "5", "6", "7", "8", "9"}

DigitVal(c) ==
    CASE c = "0" -> 0 [] c = "1" -> 1 [] c = "2" -> 2 [] c = "3" -> 3
      [] c = "4" -> 4 [] c = "5" -> 5 [] c = "6" -> 6 [] c = "7" -> 7
      [] c = "8" -> 8 [] c = "9" -> 9

isdigit(c) == c \in Digits

isspace(c) == c = " "

\* s[a..b] with Python's slice semantics on 1-based positions a..b
Slice(s, a, b) == IF a > b THEN <<>> ELSE SubSeq(s, a, b)

RECURSIVE lstrip(_)
lstrip(s) ==
    IF s # <<>> /\ isspace(Head(s)) THEN lstrip(Tail(s)) ELSE s

RECURSIVE rstrip(_)
rstrip(s) ==
    IF s # <<>> /\ isspace(s[Len(s)]) THEN rstrip(Slice(s, 1, Len(s) - 1)) ELSE s

\* str.strip()
strip(s) == rstrip(lstrip(s))

RECURSIVE DecimalValue(_)
DecimalValue(s) ==
    IF s = <<>> THEN 0
    ELSE 10 * DecimalValue(Slice(s, 1, Len(s) - 1)) + DigitVal(s[Len(s)])

AllDigits(s) == s # <<>> /\ \A k \in 1..Len(s) : isdigit(s[k])

\* int(s): surrounding blanks are ignored, one optional sign, then digits only;
\* anything else raises ValueError.
IntOk(s) ==
    LET t == strip(s) IN
    \/ AllDigits(t)
    \/ /\ t # <<>>
       /\ Head(t) \in {"-", "+"}
       /\ AllDigits(Tail(t))

IntVal(s) ==
    LET t == strip(s) IN
    IF Head(t) = "-" THEN 0 - DecimalValue(Tail(t))
    ELSE IF Head(t) = "+" THEN DecimalValue(Tail(t))
    ELSE DecimalValue(t)

\* str(n) for the integers the model meets
RECURSIVE NatStr(_)
NatStr(n) == IF n < 10 THEN ToString(n) ELSE NatStr(n \div 10) \o ToString(n % 10)

IntStr(n) == IF n < 0 THEN "-" \o NatStr(0 - n) ELSE NatStr(n)

\* s.index(c, i): the first position >= i holding c, 0 when there is none
\* (the program raises ValueError there)
RECURSIVE IndexFrom(_, _, _)
IndexFrom(s, c, i) ==
    IF i > Len(s) THEN 0
    ELSE IF s[i] = c THEN i
    ELSE IndexFrom(s, c, i + 1)

\* s.split(c)
RECURSIVE SplitOn(_, _)
SplitOn(s, c) ==
    LET j == IndexFrom(s, c, 1) IN
    IF j = 0 THEN <<s>>
    ELSE <<Slice(s, 1, j - 1)>> \o SplitOn(Slice(s, j + 1, Len(s)), c)

RECURSIVE SelectNonEmpty(_)
SelectNonEmpty(pieces) ==
    IF pieces = <<>> THEN <<>>
    ELSE IF strip(Head(pieces)) # <<>>
         THEN <<strip(Head(pieces))>> \o SelectNonEmpty(Tail(pieces))
         ELSE SelectNonEmpty(Tail(pieces))

\* [int(x.strip()) for x in content.split(',') if x.strip()]
BraceTokens(content) == SelectNonEmpty(SplitOn(content, ","))

BraceTokensOk(content) ==
    \A k \in 1..Len(BraceTokens(content)) : IntOk(BraceTokens(content)[k])

BraceItems(content) ==
    [k \in 1..Len(BraceTokens(content)) |-> IntVal(BraceTokens(content)[k])]

(***************************************************************************)
(* parse_order_string.  An entry of the result is a record: isList tells   *)
(* a nested list (tie) from a bare integer, ids holds the integer(s).      *)
(* The result is [ok, val]; ok = FALSE stands for a raised exception, exc  *)
(* naming it.                                                              *)
(***************************************************************************)
Bare(n) == [isList |-> FALSE, ids |-> <<n>>]

Tie(ns) == [isList |-> TRUE, ids |-> ns]

Raised(e) == [ok |-> FALSE, exc |-> e, val |-> <<>>]

Returned(v) == [ok |-> TRUE, exc |-> "none", val |-> v]

\* TieEntry without the collapse of a one-member group
TieEntryKeepsSingleton(tie_items) == Tie(tie_items)

\* result.append(tie_items if len(tie_items) > 1 else tie_items[0])
TieEntry(tie_items) ==
    IF Len(tie_items) > 1 THEN Tie(tie_items) ELSE Bare(tie_items[1])

\* end of the run of digits and '-' that starts at i (first position after it)
RECURSIVE NumberEnd(_, _)
NumberEnd(s, j) ==
    IF j <= Len(s) /\ (isdigit(s[j]) \/ s[j] = "-") THEN NumberEnd(s, j + 1) ELSE j

SkipComma(s, i) == IF i <= Len(s) /\ s[i] = "," THEN i + 1 ELSE i

RECURSIVE OrderScan(_, _, _)
OrderScan(s, i, result) ==
    IF i > Len(s) THEN Returned(result)
    ELSE IF s[i] = "{" THEN
        LET j == IndexFrom(s, "}", i) IN
        IF j = 0 THEN Raised("ValueError")
        ELSE LET tie_content == Slice(s, i + 1, j - 1) IN
             IF ~BraceTokensOk(tie_content) THEN Raised("ValueError")
             ELSE IF Len(BraceItems(tie_content)) = 0 THEN Raised("IndexError")
             ELSE OrderScan(s, SkipComma(s, j + 1),
                            Append(result, TieEntry(BraceItems(tie_content))))
    ELSE IF s[i] = "," THEN OrderScan(s, i + 1, result)
    ELSE IF isdigit(s[i]) \/ s[i] = "-" THEN
        LET j == NumberEnd(s, i) IN
        IF ~IntOk(Slice(s, i, j - 1)) THEN Raised("ValueError")
        ELSE OrderScan(s, SkipComma(s, j), Append(result, Bare(IntVal(Slice(s, i, j - 1)))))
    ELSE OrderScan(s, i + 1, result)

parse_order_string(order_str) == OrderScan(strip(order_str), 1, <<>>)

(***************************************************************************)
(* Names.  A name table is a function from the declared ids to names;      *)
(* alternatives.get(aid, f"Alt_{aid}") falls back to the placeholder.      *)
(***************************************************************************)
Placeholder(aid) == "Alt_" \o IntStr(aid)

NameOf(table, aid) == IF aid \in DOMAIN table THEN table[aid] ELSE Placeholder(aid)

\* an entry of a canonical order: a bare name or a list of names (tie)
BareName(n) == [isList |-> FALSE, alts |-> <<n>>]

TieNames(ns) == [isList |-> TRUE, alts |-> ns]

ids_to_names(order, table) ==
    [k \in 1..Len(order) |->
        [isList |-> order[k].isList,
         alts |-> [m \in 1..Len(order[k].ids) |-> NameOf(table, order[k].ids[m])]]]

\* count += len(item) if isinstance(item, list) else 1, over entries with field f
RECURSIVE CountFrom(_, _)
CountFrom(sizes, k) ==
    IF k > Len(sizes) THEN 0 ELSE sizes[k] + CountFrom(sizes, k + 1)

count_alternatives_ids(order) ==
    CountFrom([k \in 1..Len(order) |-> IF order[k].isList THEN Len(order[k].ids) ELSE 1], 1)

count_alternatives(order) ==
    CountFrom([k \in 1..Len(order) |-> IF order[k].isList THEN Len(order[k].alts) ELSE 1], 1)

\* [alternatives.get(i, f"Alt_{i}") for i in range(1, num_alternatives + 1)]
AllAlternatives(table, n) ==
    [i \in 1..(IF n > 0 THEN n ELSE 0) |-> NameOf(table, i)]

RECURSIVE SumVoters(_)
SumVoters(rs) == IF rs = <<>> THEN 0 ELSE Head(rs).voters + SumVoters(Tail(rs))

(***************************************************************************)
(* Input lines.  A line of the file is kept as the pieces the readers cut  *)
(* it into: kind "blank" (empty after strip), "header" (starts with '#'),  *)
(* "body" (contains ':'), "other" (anything else).  A header carries       *)
(* hasSep (whether ': ' occurs), the normalised key, for a key             *)
(* alternative_name_<arg> or category_name_<arg> the text arg, the value   *)
(* as text (numeric keys) or as a name (title, names); a body line carries *)
(* the text before and after its first ':'; every line that is no header   *)
(* carries parts, its split at ',' (the matching reader's fields).         *)
(***************************************************************************)
Line(kind, hasSep, key, arg, value, name, voters, order, parts) ==
    [kind |-> kind, hasSep |-> hasSep, key |-> key, arg |-> arg, value |-> value,
     name |-> name, voters |-> voters, order |-> order, parts |-> parts]

HeaderLine(key, arg, value, name) ==
    Line("header", TRUE, key, arg, value, name, <<>>, <<>>, <<>>)

HeaderNoSep == Line("header", FALSE, "", <<>>, <<>>, "", <<>>, <<>>, <<>>)

BodyLine(voters, order) ==
    Line("body", FALSE, "", <<>>, <<>>, "", voters, order,
         SplitOn(voters \o <<":">> \o order, ","))

BlankLine == Line("blank", FALSE, "", <<>>, <<>>, "", <<>>, <<>>, <<>>)

OtherLine(text) == Line("other", FALSE, "", <<>>, <<>>, "", <<>>, <<>>, SplitOn(text, ","))

\* the decimal text of a natural number
RECURSIVE NumText(_)
NumText(n) == IF n < 10 THEN <<ToString(n)>> ELSE Append(NumText(n \div 10), ToString(n % 10))

\* the text of an order: entries joined by ',', a tie written {a,b,...}
RECURSIVE JoinIds(_)
JoinIds(ids) ==
    IF ids = <<>> THEN <<>>
    ELSE IF Len(ids) = 1 THEN NumText(ids[1])
    ELSE NumText(ids[1]) \o <<",">> \o JoinIds(Tail(ids))

EntryText(e) == IF e.isList THEN <<"{">> \o JoinIds(e.ids) \o <<"}">> ELSE NumText(e.ids[1])

RECURSIVE OrderText(_)
OrderText(o) ==
    IF o = <<>> THEN <<>>
    ELSE IF Len(o) = 1 THEN EntryText(o[1])
    ELSE EntryText(o[1]) \o <<",">> \o OrderText(Tail(o))

\* the order whose members are m, in that sequence, a new entry starting after
\* every position in cuts; an entry of one member is bare, a longer one a tie
RECURSIVE GroupEnd(_, _, _)
GroupEnd(m, cuts, e) == IF e >= Len(m) \/ e \in cuts THEN e ELSE GroupEnd(m, cuts, e + 1)

RECURSIVE Grouped(_, _, _)
Grouped(m, cuts, i) ==
    IF i > Len(m) THEN <<>>
    ELSE LET e == GroupEnd(m, cuts, i) IN
         <<IF e = i THEN Bare(m[i]) ELSE Tie(SubSeq(m, i, e))>> \o Grouped(m, cuts, e + 1)

Injective(m) == \A a, b \in 1..Len(m) : a # b => m[a] # m[b]

\* every order over the ids 1..MaxAlts that names no id twice
MemberSeqs == UNION {{f \in [1..n -> 1..MaxAlts] : Injective(f)} : n \in 0..MaxAlts}

Orders ==
    UNION {{Grouped(m, cuts, 1) : cuts \in SUBSET (1..(Len(m) - 1))} : m \in MemberSeqs}

\* order texts outside that family: a repeated id, a one-member brace group, an empty
\* brace group, an unclosed brace, an unrecognised character, a '-' inside a number
OddOrderTexts ==
    {<<"1", ",", "1">>, <<"{", "1", "}">>, <<"{", "}">>, <<"{", "1", ",", "2">>,
     <<"1", "x", "2">>, <<"1", "-", "2">>}

OrderTexts == {OrderText(o) : o \in Orders} \cup OddOrderTexts

VoterTexts == {NumText(v) : v \in 0..MaxVoters} \cup {<<"-", "1">>, <<"x">>}

BodyLines == {BodyLine(v, o) : v \in VoterTexts, o \in OrderTexts}

HeaderLines ==
    {HeaderLine("number_alternatives", <<>>, t, "") :
        t \in {NumText(MaxAlts - 1), NumText(MaxAlts), <<"x">>}}
    \cup {HeaderLine("number_voters", <<>>, <<"7">>, ""),
          HeaderLine("alternative_name_", <<"1">>, <<>>, "A"),
          HeaderLine("alternative_name_", <<"x">>, <<>>, "A"),
          HeaderLine("title", <<>>, <<>>, "T"),
          HeaderLine("description", <<>>, <<>>, "D"),
          HeaderNoSep}

(***************************************************************************)
(* State.                                                                  *)
(*   pc               where the running function stands: "dispatch" (in    *)
(*                    parse_preflib), "read" (in a reader's loop),         *)
(*                    "returned" (the reader returned result), "convert",  *)
(*                    "next_ranking", "walk" (in convert_to_dass),         *)
(*                    "converted" (it returned dass), "raised"             *)
(*   error            the exception that left the running function         *)
(*   suffix, reader   the dispatcher's file suffix and the reader running  *)
(*   lines            the lines of the file the reader's loop has consumed *)
(*   complete_only, metadata, alternatives, rankings, num_alternatives,    *)
(*   categories, preferences, num_categories, edges                        *)
(*                    the readers' argument and locals                     *)
(*   result           the document a reader returned (NoDoc before that)   *)
(*   data, dms, dm_counter, ridx, order, iidx, alt_to_rank, current_rank,  *)
(*   scores, dass     convert_to_dass: its argument, its locals (ridx and  *)
(*                    iidx are the positions of the two for loops) and the *)
(*                    document it returned                                 *)
(*   order_str, parsed, reparsed                                           *)
(*                    parse_order_string called on its own: its argument,  *)
(*                    what the call gave, and what a second call on the    *)
(*                    serialised result gave (NoDoc before each call)      *)
(*   self, cluster_assignments, rankings_raw, expert_id                    *)
(*                    RankingGenerator.generate: the generator object (a   *)
(*                    record of its fields) and the locals of generate     *)
(***************************************************************************)
VARIABLES pc, error, suffix, reader, lines, complete_only, metadata, alternatives,
          rankings, num_alternatives, categories, preferences, num_categories, edges,
          result, data, dms, dm_counter, ridx, order, iidx, alt_to_rank, current_rank,
          scores, dass, order_str, parsed, reparsed, self, cluster_assignments,
          rankings_raw, expert_id

headerVars == <<metadata, alternatives, num_alternatives>>

ordVars == <<complete_only, rankings>>

catVars == <<categories, preferences, num_categories>>

wmdVars == <<edges>>

readerVars == <<lines, headerVars, ordVars, catVars, wmdVars, result>>

mainVars == <<suffix, reader>>

dassVars == <<data, dms, dm_counter, ridx, order, iidx, alt_to_rank, current_rank,
              scores, dass>>

orderVars == <<order_str, parsed, reparsed>>

genVars == <<self, cluster_assignments, rankings_raw, expert_id>>

vars == <<pc, error, mainVars, readerVars, dassVars, orderVars, genVars>>

NoDoc == [none |-> TRUE]

EmptyDict == [k \in {} |-> 0]

\* d[k] = v on a dict
DictSet(d, k, v) == (k :> v) @@ d

\* the locals every reader starts with
ReaderStart ==
    /\ lines = <<>>
    /\ metadata = EmptyDict
    /\ alternatives = EmptyDict
    /\ rankings = <<>>
    /\ num_alternatives = 0
    /\ categories = EmptyDict
    /\ preferences = <<>>
    /\ num_categories = 0
    /\ edges = <<>>
    /\ result = NoDoc

\* the suffix when a reader is called directly, not through parse_preflib
DirectCall == <<"direct">>

DassIdle ==
    /\ data = NoDoc
    /\ dms = <<>>
    /\ dm_counter = 1
    /\ ridx = 0
    /\ order = <<>>
    /\ iidx = 0
    /\ alt_to_rank = EmptyDict
    /\ current_rank = 1
    /\ scores = <<>>
    /\ dass = NoDoc

OrderIdle ==
    /\ order_str = <<>>
    /\ parsed = NoDoc
    /\ reparsed = NoDoc

GenIdle ==
    /\ self = NoDoc
    /\ cluster_assignments = <<>>
    /\ rankings_raw = <<>>
    /\ expert_id = 0

\* files are cut at MaxLines lines, at MaxMainLines when read through parse_preflib
LineLimit == IF suffix = DirectCall THEN MaxLines ELSE MaxMainLines

MoreLines(r) == pc = "read" /\ reader = r /\ Len(lines) < LineLimit

(***************************************************************************)
(* The header branch, the same in the three readers but for the keys each  *)
(* knows.  int() of a malformed value raises there and nothing catches it. *)
(***************************************************************************)
HeaderRaises(l, numericKeys, nameKeys) ==
    /\ l.hasSep
    /\ \/ l.key \in numericKeys /\ ~IntOk(l.value)
       \/ l.key \in nameKeys /\ ~IntOk(l.arg)

HeaderMetadata(md, l, numericKey, field) ==
    IF ~l.hasSep THEN md
    ELSE IF l.key = "title" THEN DictSet(md, "title", l.name)
    ELSE IF l.key = numericKey THEN DictSet(md, field, IntVal(l.value))
    ELSE md

HeaderNumber(n, l, key) == IF l.hasSep /\ l.key = key THEN IntVal(l.value) ELSE n

HeaderNames(table, l, key) ==
    IF l.hasSep /\ l.key = key THEN DictSet(table, IntVal(l.arg), l.name) ELSE table

(***************************************************************************)
(* parse_preflib_ordinal.  One action per kind of line the loop meets; the *)
(* line is chosen when the loop reaches it, and lines records the file     *)
(* read so far.  BuildResult is the code after the loop: the file ended.   *)
(***************************************************************************)
OrdinalInit ==
    /\ pc = "read"
    /\ error = "none"
    /\ suffix = DirectCall
    /\ reader = "ordinal"
    /\ complete_only \in BOOLEAN
    /\ ReaderStart
    /\ DassIdle
    /\ OrderIdle
    /\ GenIdle

\* if not line: continue
ReadBlank ==
    /\ MoreLines("ordinal")
    /\ lines' = Append(lines, BlankLine)
    /\ UNCHANGED <<pc, error, mainVars, headerVars, ordVars, catVars, wmdVars, result,
                   dassVars, orderVars, genVars>>

\* a line without '#' and without ':' matches no branch
ReadOther ==
    /\ MoreLines("ordinal")
    /\ lines' = Append(lines, OtherLine(<<"1", ",", "2">>))
    /\ UNCHANGED <<pc, error, mainVars, headerVars, ordVars, catVars, wmdVars, result,
                   dassVars, orderVars, genVars>>

ReadHeader ==
    /\ MoreLines("ordinal")
    /\ \E l \in HeaderLines :
        /\ lines' = Append(lines, l)
        /\ IF HeaderRaises(l, {"number_alternatives", "number_voters"}, {"alternative_name_"})
           THEN /\ pc' = "raised"
                /\ error' = "ValueError: invalid literal for int()"
                /\ UNCHANGED headerVars
           ELSE /\ metadata' = HeaderMetadata(metadata, l, "number_voters", "total_voters")
                /\ num_alternatives' = HeaderNumber(num_alternatives, l, "number_alternatives")
                /\ alternatives' = HeaderNames(alternatives, l, "alternative_name_")
                /\ UNCHANGED <<pc, error>>
    /\ UNCHANGED <<mainVars, ordVars, catVars, wmdVars, result, dassVars, orderVars, genVars>>

\* the try block raises ValueError or IndexError: the except clause skips the line
BodyParses(l) == IntOk(l.voters) /\ parse_order_string(strip(l.order)).ok

BodyOrderIds(l) == parse_order_string(strip(l.order)).val

\* if complete_only and order_count < num_alternatives: continue
Dropped(co, order_count, n) == co /\ order_count < n

BodyKept(l, co, n) ==
    BodyParses(l) /\ ~Dropped(co, count_alternatives_ids(BodyOrderIds(l)), n)

BodyRecord(l, table) ==
    [order |-> ids_to_names(BodyOrderIds(l), table), voters |-> IntVal(l.voters)]

\* AppendRanking adding the voters to an earlier record of the same order
AppendRankingMerged(rs, rec) ==
    IF \E k \in 1..Len(rs) : rs[k].order = rec.order
    THEN LET k == CHOOSE j \in 1..Len(rs) : rs[j].order = rec.order
         IN [rs EXCEPT ![k].voters = @ + rec.voters]
    ELSE Append(rs, rec)

\* rankings.append({'order': order_names, 'voters': voters})
AppendRanking(rs, rec) == Append(rs, rec)

ReadBody ==
    /\ MoreLines("ordinal")
    /\ \E l \in BodyLines :
        /\ lines' = Append(lines, l)
        /\ rankings' = IF BodyKept(l, complete_only, num_alternatives)
                       THEN AppendRanking(rankings, BodyRecord(l, alternatives))
                       ELSE rankings
    /\ UNCHANGED <<pc, error, mainVars, headerVars, complete_only, catVars, wmdVars, result,
                   dassVars, orderVars, genVars>>

\* any(any(isinstance(item, list) for item in r['order']) for r in rankings)
HasTies(rs) == \E k \in 1..Len(rs) : \E j \in 1..Len(rs[k].order) : rs[k].order[j].isList

\* IsComplete counting entries, a tie as one
IsCompleteByEntries(rs, n) == \A k \in 1..Len(rs) : Len(rs[k].order) = n

\* all(count_alternatives(r['order']) == num_alternatives for r in rankings)
IsComplete(rs, n) == \A k \in 1..Len(rs) : count_alternatives(rs[k].order) = n

\* metadata.get('total_voters', sum(r['voters'] for r in rankings))
TotalVoters(md, rs) ==
    IF "total_voters" \in DOMAIN md THEN md["total_voters"] ELSE SumVoters(rs)

\* the returned dict, but for title, source and data_type (names of the file)
OrdinalDocument(md, table, rs, n) ==
    [metadata |-> [has_ties |-> HasTies(rs),
                   is_complete |-> IsComplete(rs, n),
                   total_voters |-> TotalVoters(md, rs),
                   num_alternatives |-> n],
     alternatives |-> AllAlternatives(table, n),
     rankings |-> rs]

BuildResult ==
    /\ pc = "read"
    /\ reader = "ordinal"
    /\ pc' = "returned"
    /\ result' = OrdinalDocument(metadata, alternatives, rankings, num_alternatives)
    /\ UNCHANGED <<error, mainVars, lines, headerVars, ordVars, catVars, wmdVars, dassVars,
                   orderVars, genVars>>

OrdinalNext == ReadBlank \/ ReadOther \/ ReadHeader \/ ReadBody \/ BuildResult

SpecOrdinal == OrdinalInit /\ [][OrdinalNext]_vars

(***************************************************************************)
(* parse_category_string: every entry of the result is a list of ids.      *)
(***************************************************************************)
RECURSIVE DigitsEnd(_, _)
DigitsEnd(s, j) == IF j <= Len(s) /\ isdigit(s[j]) THEN DigitsEnd(s, j + 1) ELSE j

RECURSIVE CategoryScan(_, _, _)
CategoryScan(s, i, found) ==
    IF i > Len(s) THEN Returned(found)
    ELSE IF s[i] = "{" THEN
        LET j == IndexFrom(s, "}", i) IN
        IF j = 0 THEN Raised("ValueError")
        ELSE LET content == Slice(s, i + 1, j - 1) IN
             IF strip(content) = <<>>
             THEN CategoryScan(s, SkipComma(s, j + 1), Append(found, <<>>))
             ELSE IF ~BraceTokensOk(content) THEN Raised("ValueError")
             ELSE CategoryScan(s, SkipComma(s, j + 1), Append(found, BraceItems(content)))
    ELSE IF s[i] = "," THEN CategoryScan(s, i + 1, found)
    ELSE IF isdigit(s[i]) THEN
        LET j == DigitsEnd(s, i) IN
        CategoryScan(s, SkipComma(s, j), Append(found, <<IntVal(Slice(s, i, j - 1))>>))
    ELSE CategoryScan(s, i + 1, found)

parse_category_string(cat_str) == CategoryScan(strip(cat_str), 1, <<>>)

(***************************************************************************)
(* parse_preflib_categorical.                                              *)
(***************************************************************************)
\* [categories.get(i, f"Category_{i}") for i in range(1, num_categories + 1)]
CategoryName(cats, i) == IF i \in DOMAIN cats THEN cats[i] ELSE "Category_" \o IntStr(i)

AllCategories(cats, nc) == [i \in 1..(IF nc > 0 THEN nc ELSE 0) |-> CategoryName(cats, i)]

RECURSIVE SumPrefVoters(_)
SumPrefVoters(ps) == IF ps = <<>> THEN 0 ELSE Head(ps).voters + SumPrefVoters(Tail(ps))

CatTexts ==
    {<<"1">>, <<"1", ",", "2">>, <<"{", "1", ",", "2", "}", ",", "3">>, <<"1", ",", "{", "}">>,
     <<"{", "}", ",", "{", "1", ",", "2", "}">>, <<"{", "1">>, <<"{", "x", "}">>, <<>>}

CatBodyLines == {BodyLine(v, c) : v \in VoterTexts, c \in CatTexts}

CatHeaderLines ==
    {HeaderLine("number_alternatives", <<>>, NumText(MaxAlts), ""),
     HeaderLine("number_voters", <<>>, <<"7">>, ""),
     HeaderLine("number_categories", <<>>, <<"2">>, ""),
     HeaderLine("number_categories", <<>>, <<"x">>, ""),
     HeaderLine("alternative_name_", <<"1">>, <<>>, "A"),
     HeaderLine("category_name_", <<"1">>, <<>>, "Yes"),
     HeaderLine("category_name_", <<"2">>, <<>>, "No"),
     HeaderLine("category_name_", <<"x">>, <<>>, "No"),
     HeaderLine("title", <<>>, <<>>, "T"),
     HeaderNoSep}

\* a blank line, or a line without '#' and without ':'
CatReadSkipped ==
    /\ MoreLines("categorical")
    /\ \E l \in {BlankLine, OtherLine(<<"1", ",", "2">>)} : lines' = Append(lines, l)
    /\ UNCHANGED <<pc, error, mainVars, headerVars, ordVars, catVars, wmdVars, result,
                   dassVars, orderVars, genVars>>

CatReadHeader ==
    /\ MoreLines("categorical")
    /\ \E l \in CatHeaderLines :
        /\ lines' = Append(lines, l)
        /\ IF HeaderRaises(l, {"number_alternatives", "number_voters", "number_categories"},
                           {"alternative_name_", "category_name_"})
           THEN /\ pc' = "raised"
                /\ error' = "ValueError: invalid literal for int()"
                /\ UNCHANGED <<headerVars, categories, num_categories>>
           ELSE /\ metadata' = HeaderMetadata(metadata, l, "number_voters", "total_voters")
                /\ num_alternatives' = HeaderNumber(num_alternatives, l, "number_alternatives")
                /\ num_categories' = HeaderNumber(num_categories, l, "number_categories")
                /\ alternatives' = HeaderNames(alternatives, l, "alternative_name_")
                /\ categories' = HeaderNames(categories, l, "category_name_")
                /\ UNCHANGED <<pc, error>>
    /\ UNCHANGED <<mainVars, ordVars, preferences, wmdVars, result, dassVars, orderVars,
                   genVars>>

CatBodyParses(l) == IntOk(l.voters) /\ parse_category_string(strip(l.order)).ok

\* for i, items in enumerate(cat_assignments): pref[cat_name] = [names of items]
RECURSIVE CatPref(_, _, _, _, _)
CatPref(pref, assignments, i, cats, table) ==
    IF i > Len(assignments) THEN pref
    ELSE CatPref(DictSet(pref, CategoryName(cats, i),
                         [m \in 1..Len(assignments[i]) |-> NameOf(table, assignments[i][m])]),
                 assignments, i + 1, cats, table)

CatRecord(l, cats, table) ==
    [categories |-> CatPref(EmptyDict, parse_category_string(strip(l.order)).val, 1,
                            cats, table),
     voters |-> IntVal(l.voters)]

CatReadBody ==
    /\ MoreLines("categorical")
    /\ \E l \in CatBodyLines :
        /\ lines' = Append(lines, l)
        /\ preferences' = IF CatBodyParses(l)
                          THEN Append(preferences, CatRecord(l, categories, alternatives))
                          ELSE preferences
    /\ UNCHANGED <<pc, error, mainVars, headerVars, ordVars, categories, num_categories,
                   wmdVars, result, dassVars, orderVars, genVars>>

\* the returned dict, but for title and source (names of the file)
CategoricalDocument(md, table, cats, prefs, n, nc) ==
    [metadata |-> [data_type |-> "cat",
                   total_voters |-> IF "total_voters" \in DOMAIN md
                                    THEN md["total_voters"] ELSE SumPrefVoters(prefs),
                   num_alternatives |-> n,
                   num_categories |-> nc],
     alternatives |-> AllAlternatives(table, n),
     categories |-> AllCategories(cats, nc),
     preferences |-> prefs]

CatBuildResult ==
    /\ pc = "read"
    /\ reader = "categorical"
    /\ pc' = "returned"
    /\ result' = CategoricalDocument(metadata, alternatives, categories, preferences,
                                     num_alternatives, num_categories)
    /\ UNCHANGED <<error, mainVars, lines, headerVars, ordVars, catVars, wmdVars, dassVars,
                   orderVars, genVars>>

\* parse_preflib_categorical called with a path, not through parse_preflib
CategoricalInit ==
    /\ pc = "read"
    /\ error = "none"
    /\ suffix = DirectCall
    /\ reader = "categorical"
    /\ complete_only = FALSE
    /\ ReaderStart
    /\ DassIdle
    /\ OrderIdle
    /\ GenIdle

CategoricalNext == CatReadSkipped \/ CatReadHeader \/ CatReadBody \/ CatBuildResult

SpecCategorical == CategoricalInit /\ [][CategoricalNext]_vars

(***************************************************************************)
(* parse_preflib_matching.  float() is modelled on texts of digits with an *)
(* optional sign and at most one '.'; the weight is kept as the pair of    *)
(* its digits read as an integer and the number of digits after the '.'    *)
(* (trailing zeros removed), so 1.0 is <<1, 0>> and -0.50 is <<-5, 1>>.    *)
(***************************************************************************)
Unsigned(t) == IF t # <<>> /\ Head(t) \in {"-", "+"} THEN Tail(t) ELSE t

DotAt(t) == IndexFrom(t, ".", 1)

WithoutDot(t) ==
    IF DotAt(t) = 0 THEN t ELSE Slice(t, 1, DotAt(t) - 1) \o Slice(t, DotAt(t) + 1, Len(t))

FloatOk(s) == AllDigits(WithoutDot(Unsigned(strip(s))))

RECURSIVE Reduced(_, _)
Reduced(num, dec) ==
    IF dec > 0 /\ num % 10 = 0 THEN Reduced(num \div 10, dec - 1) ELSE <<num, dec>>

FloatVal(s) ==
    LET t == strip(s)
        u == Unsigned(t)
        dec == IF DotAt(u) = 0 THEN 0 ELSE Len(u) - DotAt(u)
        mag == Reduced(DecimalValue(WithoutDot(u)), dec)
    IN IF Head(t) = "-" THEN <<0 - mag[1], mag[2]>> ELSE mag

WmdTexts ==
    {<<"1", ",", "2", ",", "1", ".", "0">>, <<"2", ",", "1", ",", "-", "0", ".", "5">>,
     <<"1", ",", "2">>, <<"1", ",", "2", ",", "3", ",", "4">>,
     <<"x", ",", "2", ",", "1">>, <<"1", ",", "2", ",", "x">>, <<"1", ",", "2", ",">>}

WmdRowLines == {OtherLine(t) : t \in WmdTexts} \cup {BodyLine(<<"1">>, <<"1", ",", "2">>)}

WmdHeaderLines ==
    {HeaderLine("number_alternatives", <<>>, NumText(MaxAlts), ""),
     HeaderLine("number_alternatives", <<>>, <<"x">>, ""),
     HeaderLine("number_edges", <<>>, <<"9">>, ""),
     HeaderLine("alternative_name_", <<"1">>, <<>>, "A"),
     HeaderLine("title", <<>>, <<>>, "T"),
     HeaderNoSep}

WmdReadBlank ==
    /\ MoreLines("matching")
    /\ lines' = Append(lines, BlankLine)
    /\ UNCHANGED <<pc, error, mainVars, headerVars, ordVars, catVars, wmdVars, result,
                   dassVars, orderVars, genVars>>

WmdReadHeader ==
    /\ MoreLines("matching")
    /\ \E l \in WmdHeaderLines :
        /\ lines' = Append(lines, l)
        /\ IF HeaderRaises(l, {"number_alternatives", "number_edges"}, {"alternative_name_"})
           THEN /\ pc' = "raised"
                /\ error' = "ValueError: invalid literal for int()"
                /\ UNCHANGED headerVars
           ELSE /\ metadata' = HeaderMetadata(metadata, l, "number_edges", "num_edges")
                /\ num_alternatives' = HeaderNumber(num_alternatives, l, "number_alternatives")
                /\ alternatives' = HeaderNames(alternatives, l, "alternative_name_")
                /\ UNCHANGED <<pc, error>>
    /\ UNCHANGED <<mainVars, ordVars, catVars, wmdVars, result, dassVars, orderVars, genVars>>

\* RowParses taking the first three of more fields
RowParsesFirstThree(l) ==
    /\ Len(l.parts) >= 3
    /\ IntOk(l.parts[1])
    /\ IntOk(l.parts[2])
    /\ FloatOk(l.parts[3])

\* if len(parts) == 3, and no ValueError from int, int, float
RowParses(l) ==
    /\ Len(l.parts) = 3
    /\ IntOk(l.parts[1])
    /\ IntOk(l.parts[2])
    /\ FloatOk(l.parts[3])

Edge(l, table) ==
    [source |-> NameOf(table, IntVal(l.parts[1])),
     target |-> NameOf(table, IntVal(l.parts[2])),
     weight |-> FloatVal(l.parts[3])]

WmdReadRow ==
    /\ MoreLines("matching")
    /\ \E l \in WmdRowLines :
        /\ lines' = Append(lines, l)
        /\ edges' = IF RowParses(l) THEN Append(edges, Edge(l, alternatives)) ELSE edges
    /\ UNCHANGED <<pc, error, mainVars, headerVars, ordVars, catVars, result, dassVars,
                   orderVars, genVars>>

\* the returned dict, but for title and source (names of the file)
MatchingDocument(table, es, n) ==
    [metadata |-> [data_type |-> "wmd", num_alternatives |-> n, num_edges |-> Len(es)],
     alternatives |-> AllAlternatives(table, n),
     edges |-> es]

WmdBuildResult ==
    /\ pc = "read"
    /\ reader = "matching"
    /\ pc' = "returned"
    /\ result' = MatchingDocument(alternatives, edges, num_alternatives)
    /\ UNCHANGED <<error, mainVars, lines, headerVars, ordVars, catVars, wmdVars, dassVars,
                   orderVars, genVars>>

\* parse_preflib_matching called with a path, not through parse_preflib
MatchingInit ==
    /\ pc = "read"
    /\ error = "none"
    /\ suffix = DirectCall
    /\ reader = "matching"
    /\ complete_only = FALSE
    /\ ReaderStart
    /\ DassIdle
    /\ OrderIdle
    /\ GenIdle

MatchingNext == WmdReadBlank \/ WmdReadHeader \/ WmdReadRow \/ WmdBuildResult

SpecMatching == MatchingInit /\ [][MatchingNext]_vars

(***************************************************************************)
(* parse_preflib: the reader is chosen from the lower-cased suffix.        *)
(***************************************************************************)
UpperLetters == <<"A", "B", "C", "D", "E", "F", "G", "H", "I", "J", "K", "L", "M",
                  "N", "O", "P", "Q", "R", "S", "T", "U", "V", "W", "X", "Y", "Z">>

LowerLetters == <<"a", "b", "c", "d", "e", "f", "g", "h", "i", "j", "k", "l", "m",
                  "n", "o", "p", "q", "r", "s", "t", "u", "v", "w", "x", "y", "z">>

LowerChar(c) ==
    IF \E k \in 1..26 : UpperLetters[k] = c
    THEN LowerLetters[CHOOSE k \in 1..26 : UpperLetters[k] = c]
    ELSE c

\* str.lower()
lower(s) == [k \in 1..Len(s) |-> LowerChar(s[k])]

\* parse_preflib comparing the suffix as it is written
SuffixAsWritten(sfx) == sfx

\* suffix = filepath.suffix.lower()
DispatchSuffix(sfx) == lower(sfx)

OrdinalSuffixes ==
    {<<".", "s", "o", "c">>, <<".", "s", "o", "i">>, <<".", "t", "o", "c">>,
     <<".", "t", "o", "i">>}

CatSuffix == <<".", "c", "a", "t">>

WmdSuffix == <<".", "w", "m", "d">>

\* the reader parse_preflib calls, "none" where it raises
ReaderFor(sfx) ==
    IF DispatchSuffix(sfx) \in OrdinalSuffixes THEN "ordinal"
    ELSE IF DispatchSuffix(sfx) = CatSuffix THEN "categorical"
    ELSE IF DispatchSuffix(sfx) = WmdSuffix THEN "matching"
    ELSE "none"

UnsupportedFormat == "ValueError: unsupported file format"

UnsupportedConversion == "ValueError: DASS conversion is for rankings only"

\* the suffixes of the files handed to parse_preflib
Suffixes ==
    OrdinalSuffixes
    \cup {CatSuffix, WmdSuffix, <<".", "S", "O", "C">>, <<".", "T", "o", "i">>,
          <<".", "C", "a", "t">>, <<".", "W", "M", "D">>, <<".", "x", "y", "z">>,
          <<".", "s", "o">>, <<".", "j", "s", "o", "n">>, <<>>}

MainInit ==
    /\ pc = "dispatch"
    /\ error = "none"
    /\ suffix \in Suffixes
    /\ reader = "none"
    /\ complete_only \in BOOLEAN
    /\ ReaderStart
    /\ DassIdle
    /\ OrderIdle
    /\ GenIdle

ParsePreflib ==
    /\ pc = "dispatch"
    /\ reader' = ReaderFor(suffix)
    /\ IF ReaderFor(suffix) = "none"
       THEN pc' = "raised" /\ error' = UnsupportedFormat
       ELSE pc' = "read" /\ UNCHANGED error
    /\ UNCHANGED <<suffix, readerVars, dassVars, orderVars, genVars>>

\* main: data = parse_preflib(...); if args.dass: data = convert_to_dass(data)
CallConvert ==
    /\ pc = "returned"
    /\ suffix # DirectCall
    /\ data' = result
    /\ pc' = "convert"
    /\ UNCHANGED <<error, mainVars, readerVars, orderVars, genVars, dms, dm_counter, ridx,
                   order, iidx,
                   alt_to_rank, current_rank, scores, dass>>

(***************************************************************************)
(* convert_to_dass.  The argument data is a document a reader returned.    *)
(***************************************************************************)
\* the orders the ordinal reader makes of the order texts, names not declared
NameOrders ==
    {ids_to_names(parse_order_string(t).val, EmptyDict) :
        t \in {u \in OrderTexts : parse_order_string(u).ok}}

VoterValues == {IntVal(t) : t \in {u \in VoterTexts : IntOk(u)}}

RankingRecords == {[order |-> o, voters |-> v] : o \in NameOrders, v \in VoterValues}

RankingLists == UNION {[1..k -> RankingRecords] : k \in 0..MaxRankings}

\* documents the readers return: ordinal ones of up to MaxRankings records over
\* MaxAlts - 1 or MaxAlts alternatives, and those of an empty .cat and .wmd file
DassArguments ==
    {OrdinalDocument(EmptyDict, EmptyDict, rs, n) :
        rs \in RankingLists, n \in {MaxAlts - 1, MaxAlts}}
    \cup {CategoricalDocument(EmptyDict, EmptyDict, EmptyDict, <<>>, 0, 0),
          MatchingDocument(EmptyDict, <<>>, 0)}

DassInit ==
    /\ pc = "convert"
    /\ error = "none"
    /\ suffix = DirectCall
    /\ reader = "none"
    /\ complete_only = FALSE
    /\ ReaderStart
    /\ data \in DassArguments
    /\ dms = <<>>
    /\ dm_counter = 1
    /\ ridx = 0
    /\ order = <<>>
    /\ iidx = 0
    /\ alt_to_rank = EmptyDict
    /\ current_rank = 1
    /\ scores = <<>>
    /\ dass = NoDoc
    /\ OrderIdle
    /\ GenIdle

\* HasRankings looking for a key every document has
HasAlternatives(d) == "alternatives" \in DOMAIN d

\* 'rankings' in data
HasRankings(d) == "rankings" \in DOMAIN d

\* if 'rankings' not in data: raise ValueError(...)
CheckRankings ==
    /\ pc = "convert"
    /\ IF HasRankings(data)
       THEN pc' = "next_ranking" /\ UNCHANGED error
       ELSE pc' = "raised" /\ error' = UnsupportedConversion
    /\ UNCHANGED <<mainVars, readerVars, dassVars, orderVars, genVars>>

\* for ranking in rankings: ... alt_to_rank = {}; current_rank = 1
TakeRanking ==
    /\ pc = "next_ranking"
    /\ ridx < Len(data.rankings)
    /\ ridx' = ridx + 1
    /\ order' = data.rankings[ridx + 1].order
    /\ iidx' = 0
    /\ alt_to_rank' = EmptyDict
    /\ current_rank' = 1
    /\ pc' = "walk"
    /\ UNCHANGED <<error, mainVars, readerVars, orderVars, genVars, data, dms, dm_counter,
                   scores, dass>>

\* AvgRank giving every member of a tie the last position of the group
AvgRankLastPosition(rank, k) == 2 * (rank + k - 1)

\* AvgRank giving every member of a tie the first position of the group
AvgRankFirstPosition(rank, k) == 2 * rank

\* twice avg_rank = current_rank + (len(item) - 1) / 2
AvgRank(rank, k) == 2 * rank + (k - 1)

RECURSIVE SetAll(_, _, _)
SetAll(d, keys, v) ==
    IF keys = <<>> THEN d ELSE SetAll(DictSet(d, Head(keys), v), Tail(keys), v)

\* one pass of "for item in order"
WalkItem ==
    /\ pc = "walk"
    /\ iidx < Len(order)
    /\ LET item == order[iidx + 1] IN
        IF item.isList
        THEN /\ alt_to_rank' = SetAll(alt_to_rank, item.alts, AvgRank(current_rank, Len(item.alts)))
             /\ current_rank' = current_rank + Len(item.alts)
        ELSE /\ alt_to_rank' = DictSet(alt_to_rank, item.alts[1], 2 * current_rank)
             /\ current_rank' = current_rank + 1
    /\ iidx' = iidx + 1
    /\ UNCHANGED <<pc, error, mainVars, readerVars, orderVars, genVars, data, dms,
                   dm_counter, ridx,
                   order, scores, dass>>

\* MaxRank continuing the position counter instead of the constant
MaxRankFromCounter(alts, rank) == 2 * rank

\* twice max_rank = len(alternatives); rank is the position counter after the walk,
\* which the program does not use here
MaxRank(alts, rank) == 2 * Len(alts)

\* for alt in alternatives: if alt not in alt_to_rank: alt_to_rank[alt] = max_rank
RECURSIVE FillMissing(_, _, _)
FillMissing(d, alts, max_rank) ==
    IF alts = <<>> THEN d
    ELSE FillMissing(IF Head(alts) \in DOMAIN d THEN d ELSE DictSet(d, Head(alts), max_rank),
                     Tail(alts), max_rank)

\* Scores listing the alternatives backwards
ScoresReversed(alts, d, max_rank) ==
    [j \in 1..Len(alts) |->
        <<IF alts[Len(alts) + 1 - j] \in DOMAIN d THEN d[alts[Len(alts) + 1 - j]] ELSE max_rank>>]

\* [[alt_to_rank.get(alt, max_rank)] for alt in alternatives]
Scores(alts, d, max_rank) ==
    [j \in 1..Len(alts) |-> <<IF alts[j] \in DOMAIN d THEN d[alts[j]] ELSE max_rank>>]

\* the passes of "for _ in range(voters)"
Copies(voters) == IF voters > 0 THEN voters ELSE 0

\* dms.append({'id': f'DM{dm_counter}', 'scores': scores}); dm_counter += 1
Expand(ds, counter, voters, sc) ==
    ds \o [c \in 1..Copies(voters) |-> [id |-> "DM" \o IntStr(counter + c - 1), scores |-> sc]]

\* the rest of the outer loop's body, once the order is walked
FinishRanking ==
    /\ pc = "walk"
    /\ iidx = Len(order)
    /\ LET max_rank == MaxRank(data.alternatives, current_rank)
           filled == FillMissing(alt_to_rank, data.alternatives, max_rank)
           sc == Scores(data.alternatives, filled, max_rank)
           voters == data.rankings[ridx].voters
       IN /\ alt_to_rank' = filled
          /\ scores' = sc
          /\ dms' = Expand(dms, dm_counter, voters, sc)
          /\ dm_counter' = dm_counter + Copies(voters)
    /\ pc' = "next_ranking"
    /\ UNCHANGED <<error, mainVars, readerVars, orderVars, genVars, data, ridx, order, iidx,
                   current_rank, dass>>

DassDocument(alts, ds) ==
    [alternatives |-> alts,
     criteria |-> <<[name |-> "Rank", type |-> "negative"]>>,
     dms |-> ds]

Return ==
    /\ pc = "next_ranking"
    /\ ridx = Len(data.rankings)
    /\ dass' = DassDocument(data.alternatives, dms)
    /\ pc' = "converted"
    /\ UNCHANGED <<error, mainVars, readerVars, orderVars, genVars, data, dms, dm_counter, ridx,
                   order, iidx, alt_to_rank, current_rank, scores>>

DassNext == CheckRankings \/ TakeRanking \/ WalkItem \/ FinishRanking \/ Return

SpecDass == DassInit /\ [][DassNext]_vars

(***************************************************************************)
(* main: parse_preflib on a file, then convert_to_dass when --dass is      *)
(* given.                                                                  *)
(***************************************************************************)
MainNext ==
    \/ ParsePreflib
    \/ ReadBlank \/ ReadOther \/ ReadHeader \/ ReadBody \/ BuildResult
    \/ CatReadSkipped \/ CatReadHeader \/ CatReadBody \/ CatBuildResult
    \/ WmdReadBlank \/ WmdReadHeader \/ WmdReadRow \/ WmdBuildResult
    \/ CallConvert
    \/ CheckRankings \/ TakeRanking \/ WalkItem \/ FinishRanking \/ Return

SpecMain == MainInit /\ [][MainNext]_vars

(***************************************************************************)
(* RankingGenerator.generate.  The generator is the record self of the     *)
(* fields __init__ sets; consensus_level and cluster_balance are kept in   *)
(* hundredths.  Every random call (shuffle, sample, choice, random,        *)
(* randint) is a choice over all its outcomes; consensus_position only     *)
(* weights the positions, and every weight is positive, so it excludes     *)
(* no outcome.                                                             *)
(***************************************************************************)
\* int(x) of the quotient a / b, b > 0: truncation towards zero
IntTrunc(a, b) == IF a >= 0 THEN a \div b ELSE 0 - ((0 - a) \div b)

\* [item] * count
RECURSIVE Repeat(_, _)
Repeat(item, count) == IF count <= 0 THEN <<>> ELSE <<item>> \o Repeat(item, count - 1)

\* every arrangement of a list: random.shuffle
Shuffles(seq) ==
    {[k \in 1..Len(seq) |-> seq[p[k]]] : p \in Permutations(1..Len(seq))}

Reverse(seq) == [k \in 1..Len(seq) |-> seq[Len(seq) + 1 - k]]

\* result[a], result[b] = result[b], result[a] (positions counted from 1)
Swap(seq, a, b) == [seq EXCEPT ![a] = seq[b], ![b] = seq[a]]

\* count swaps of two different positions drawn by random.sample
RECURSIVE SampleSwaps(_, _)
SampleSwaps(seq, count) ==
    IF count <= 0 THEN {seq}
    ELSE UNION {UNION {{Swap(r, a, b) : b \in 1..Len(seq) \ {a}} : a \in 1..Len(seq)} :
                    r \in SampleSwaps(seq, count - 1)}

\* self.alternatives = [f"A{i+1}" for i in range(num_alternatives)]
DefaultNames(n) == [i \in 1..(IF n > 0 THEN n ELSE 0) |-> "A" \o IntStr(i)]

\* the generators __init__ constructs without raising
Generators ==
    {[alternatives |-> DefaultNames(n), num_experts |-> e, consensus_level |-> c,
      num_clusters |-> k, cluster_balance |-> b, rankings |-> <<>>,
      cluster_centers |-> <<>>] :
        n \in 0..MaxGenAlternatives, e \in (0 - 1)..MaxExperts, c \in {0, 50, 100},
        k \in 1..MaxClusters, b \in {0 - 50, 0, 50, 150}}

GenInit ==
    /\ pc = "generate"
    /\ error = "none"
    /\ suffix = DirectCall
    /\ reader = "none"
    /\ complete_only = FALSE
    /\ ReaderStart
    /\ DassIdle
    /\ OrderIdle
    /\ self \in Generators
    /\ cluster_assignments = <<>>
    /\ rankings_raw = <<>>
    /\ expert_id = 0

\* _generate_cluster_centers: a shuffle, its reverse, then copies with swaps
CenterChoices(base, k) ==
    {<<base>> \o (IF k >= 2 THEN <<Reverse(base)>> ELSE <<>>) \o rest :
        rest \in [1..(IF k > 2 THEN k - 2 ELSE 0) -> SampleSwaps(base, Len(base) \div 2)]}

GenerateClusterCenters ==
    /\ pc = "generate"
    /\ \E base \in Shuffles(self.alternatives) :
          \E centers \in CenterChoices(base, self.num_clusters) :
              self' = [self EXCEPT !.cluster_centers = centers]
    /\ pc' = "assign"
    /\ UNCHANGED <<error, mainVars, readerVars, dassVars, orderVars, cluster_assignments,
                   rankings_raw, expert_id>>

\* the loop of _assign_experts_to_clusters over the clusters but the last (i from 0)
RECURSIVE AssignLoop(_, _, _, _)
AssignLoop(g, i, remaining, assignments) ==
    IF i >= g.num_clusters - 1
    THEN assignments \o Repeat(g.num_clusters - 1, remaining)
    ELSE LET count == IF i = 0 THEN IntTrunc(g.num_experts * g.cluster_balance, 100)
                      ELSE remaining \div (g.num_clusters - i)
         IN AssignLoop(g, i + 1, remaining - count, assignments \o Repeat(i, count))

Assignments(g) ==
    IF g.num_clusters = 1 THEN {Repeat(0, g.num_experts)}
    ELSE Shuffles(AssignLoop(g, 0, g.num_experts, <<>>))

AssignExpertsToClusters ==
    /\ pc = "assign"
    /\ cluster_assignments' \in Assignments(self)
    /\ pc' = "experts"
    /\ UNCHANGED <<error, mainVars, readerVars, dassVars, orderVars, self, rankings_raw,
                   expert_id>>

\* num_swaps = int(max_swaps * (1 - consensus_level) * 0.5), max_swaps = n(n-1)/2
NumSwaps(n, level) == IntTrunc(((n * (n - 1)) \div 2) * (100 - level), 200)

\* one pass of the loop of _perturb_ranking: pos among the first n - 1 positions,
\* swapped with its neighbour or with any position, itself included
SwapOnce(r) ==
    UNION {{Swap(r, pos, swap_pos) : swap_pos \in {pos + 1} \cup 1..Len(r)} :
              pos \in 1..(Len(r) - 1)}

\* the rankings num_swaps passes can leave; without a position to swap the loop breaks
RECURSIVE Perturbed(_, _)
Perturbed(base, num_swaps) ==
    IF num_swaps <= 0 \/ Len(base) < 2 THEN {base}
    ELSE UNION {SwapOnce(r) : r \in Perturbed(base, num_swaps - 1)}

\* for expert_id in range(num_experts): rankings_raw.append(tuple(ranking))
PerturbRanking ==
    /\ pc = "experts"
    /\ expert_id < self.num_experts
    /\ LET cluster_id == cluster_assignments[expert_id + 1]
           base == self.cluster_centers[cluster_id + 1]
       IN \E ranking \in Perturbed(base, NumSwaps(Len(base), self.consensus_level)) :
              rankings_raw' = Append(rankings_raw, ranking)
    /\ expert_id' = expert_id + 1
    /\ UNCHANGED <<pc, error, mainVars, readerVars, dassVars, orderVars, self,
                   cluster_assignments>>

\* Counter grouping undone: one record of voters 1 for every generated ranking
UngroupedRecords(raw) == [k \in 1..Len(raw) |-> [order |-> raw[k], voters |-> 1]]

\* Counter(rankings_raw).items(): the different rankings in the order they first
\* occur, each with the number of its occurrences
RECURSIVE CounterRecords(_)
CounterRecords(raw) ==
    IF raw = <<>> THEN <<>>
    ELSE LET front == SubSeq(raw, 1, Len(raw) - 1)
             last == raw[Len(raw)]
             counted == CounterRecords(front)
         IN IF \E k \in 1..Len(counted) : counted[k].order = last
            THEN [k \in 1..Len(counted) |->
                     IF counted[k].order = last
                     THEN [counted[k] EXCEPT !.voters = @ + 1] ELSE counted[k]]
            ELSE Append(counted, [order |-> last, voters |-> 1])

\* after the loop: self.rankings = [...]; return self.rankings
GroupRankings ==
    /\ pc = "experts"
    /\ ~(expert_id < self.num_experts)
    /\ self' = [self EXCEPT !.rankings = CounterRecords(rankings_raw)]
    /\ pc' = "generated"
    /\ UNCHANGED <<error, mainVars, readerVars, dassVars, orderVars, cluster_assignments,
                   rankings_raw, expert_id>>

GenNext ==
    GenerateClusterCenters \/ AssignExpertsToClusters \/ PerturbRanking \/ GroupRankings

SpecGenerator == GenInit /\ [][GenNext]_vars

(***************************************************************************)
(* parse_order_string called on its own, on every text of at most          *)
(* MaxOrderLen characters over an alphabet with two digits, the sign, the  *)
(* separator, the braces, a letter and a blank; then called again on the   *)
(* serialisation of what it returned.                                      *)
(***************************************************************************)
OrderAlphabet == {"1", "2", "-", ",", "{", "}", "x", " "}

OrderStrings == UNION {[1..n -> OrderAlphabet] : n \in 0..MaxOrderLen}

\* the decimal text of an integer
IntText(n) == IF n < 0 THEN <<"-">> \o NumText(0 - n) ELSE NumText(n)

RECURSIVE JoinInts(_)
JoinInts(ids) ==
    IF ids = <<>> THEN <<>>
    ELSE IF Len(ids) = 1 THEN IntText(ids[1])
    ELSE IntText(ids[1]) \o <<",">> \o JoinInts(Tail(ids))

\* a parsed order written back in comma and brace notation: a,{b,c},d
RECURSIVE Serialize(_)
Serialize(o) ==
    LET first == IF o[1].isList THEN <<"{">> \o JoinInts(o[1].ids) \o <<"}">>
                 ELSE IntText(o[1].ids[1])
    IN IF o = <<>> THEN <<>>
       ELSE IF Len(o) = 1 THEN first
       ELSE first \o <<",">> \o Serialize(Tail(o))

OrderInit ==
    /\ pc = "call"
    /\ error = "none"
    /\ suffix = DirectCall
    /\ reader = "none"
    /\ complete_only = FALSE
    /\ ReaderStart
    /\ DassIdle
    /\ order_str \in OrderStrings
    /\ parsed = NoDoc
    /\ reparsed = NoDoc
    /\ GenIdle

\* parse_order_string(order_str)
ParseOrder ==
    /\ pc = "call"
    /\ parsed' = parse_order_string(order_str)
    /\ IF parse_order_string(order_str).ok
       THEN pc' = "parsed" /\ UNCHANGED error
       ELSE pc' = "raised" /\ error' = parse_order_string(order_str).exc
    /\ UNCHANGED <<mainVars, readerVars, dassVars, order_str, reparsed, genVars>>

\* parse_order_string(serialised result of the first call)
Reparse ==
    /\ pc = "parsed"
    /\ reparsed' = parse_order_string(Serialize(parsed.val))
    /\ pc' = "reparsed"
    /\ UNCHANGED <<error, mainVars, readerVars, dassVars, order_str, parsed, genVars>>

OrderNext == ParseOrder \/ Reparse

SpecOrder == OrderInit /\ [][OrderNext]_vars

(***************************************************************************)
(* Properties of the ordinal reader (SpecOrdinal).                         *)
(***************************************************************************)
\* the members of an order, ties counted by their members
RECURSIVE MemberCount(_)
MemberCount(o) == IF o = <<>> THEN 0 ELSE Len(Head(o).alts) + MemberCount(Tail(o))

ParsedBodyLines(ls) == {k \in 1..Len(ls) : ls[k].kind = "body" /\ BodyParses(ls[k])}

\* C5: with complete-only requested, a body line with fewer members than the
\* num_alternatives the file's header declares yields no record (so the returned
\* document holds no such record); without complete-only every body line that
\* parses is kept as a record.
C5_CompleteOnlyDropsIncomplete ==
    pc = "returned" =>
        IF complete_only
        THEN \A k \in 1..Len(result.rankings) :
                MemberCount(result.rankings[k].order) >= result.metadata.num_alternatives
        ELSE Len(result.rankings) = Cardinality(ParsedBodyLines(lines))

\* the rankings with one member of entry j of ranking k removed
DropMember(rs, k, j) ==
    LET o == rs[k].order
        e == o[j]
        shorter == IF e.isList /\ Len(e.alts) > 1
                   THEN [o EXCEPT ![j].alts = SubSeq(e.alts, 1, Len(e.alts) - 1)]
                   ELSE SubSeq(o, 1, j - 1) \o SubSeq(o, j + 1, Len(o))
    IN [rs EXCEPT ![k].order = shorter]

\* C6: in the returned document is_complete is true exactly when every ranking's
\* member count (ties counted by members) equals num_alternatives, and in a
\* complete document removing one member from any one ranking makes it false.
C6_IsCompleteIffAllCountsEqual ==
    pc = "returned" =>
        /\ result.metadata.is_complete <=>
              \A k \in 1..Len(result.rankings) :
                  MemberCount(result.rankings[k].order) = result.metadata.num_alternatives
        /\ result.metadata.is_complete =>
              \A k \in 1..Len(result.rankings) :
                  \A j \in 1..Len(result.rankings[k].order) :
                      ~IsComplete(DropMember(result.rankings, k, j),
                                  result.metadata.num_alternatives)

\* a complete document whose ranking holds a tie
C6_Witness ==
    /\ pc = "returned"
    /\ Len(result.rankings) = 1
    /\ result.metadata.is_complete
    /\ result.metadata.num_alternatives = MaxAlts
    /\ \E j \in 1..Len(result.rankings[1].order) : result.rankings[1].order[j].isList

\* C7: in the returned document has_ties is true exactly when some ranking's
\* order holds a tie group of two or more members; a one-member brace group
\* is read as the bare alternative and is no tie.
C7_HasTiesIffSomeGroup ==
    pc = "returned" =>
        /\ result.metadata.has_ties <=>
              \E k \in 1..Len(result.rankings) :
                  \E j \in 1..Len(result.rankings[k].order) :
                      /\ result.rankings[k].order[j].isList
                      /\ Len(result.rankings[k].order[j].alts) >= 2
        /\ \A k \in 1..Len(result.rankings) :
              \A j \in 1..Len(result.rankings[k].order) :
                  Len(result.rankings[k].order[j].alts) = 1
                      => ~result.rankings[k].order[j].isList

\* a document with a tie read from one line and a one-member brace group from another
C7_Witness ==
    /\ pc = "returned"
    /\ result.metadata.has_ties
    /\ Len(result.rankings) = 2
    /\ \E k \in 1..Len(lines) : lines[k].order = <<"{", "1", "}">>

\* C8: for every sequence of lines the reader returns a document and never
\* aborts; the records come only from body lines that parse.
C8_ReaderNeverAborts ==
    /\ pc # "raised"
    /\ error = "none"
    /\ pc = "returned" => Len(result.rankings) <= Cardinality(ParsedBodyLines(lines))

(***************************************************************************)
(* Properties of convert_to_dass (SpecDass).  Ranks are doubled.           *)
(***************************************************************************)
Members(o) == UNION {{o[j].alts[m] : m \in 1..Len(o[j].alts)} : j \in 1..Len(o)}

\* C1: the order is walked left to right with a position counter starting at 1;
\* a bare alternative gets rank = counter and the counter advances by 1; every
\* member of a tie group of k members gets counter + (k-1)/2 and the counter
\* advances by k.  Stated after each pass: iidx entries are walked, before is
\* the counter the last of them met.
C1_WalkAssignsAverageRanks ==
    pc = "walk" =>
        /\ iidx = 0 => current_rank = 1
        /\ iidx >= 1 =>
            LET item == order[iidx]
                k == Len(item.alts)
                before == 1 + MemberCount(SubSeq(order, 1, iidx - 1))
            IN /\ current_rank = before + k
               /\ \A m \in 1..k :
                    /\ item.alts[m] \in DOMAIN alt_to_rank
                    /\ 2 * alt_to_rank[item.alts[m]] = 2 * (2 * before) + 2 * (k - 1)

\* the order Alt_1,{Alt_2,Alt_3} walked to its end: ranks 1, 2.5, 2.5, counter 4
C1_Witness ==
    /\ pc = "walk"
    /\ order = <<BareName("Alt_1"), TieNames(<<"Alt_2", "Alt_3">>)>>
    /\ iidx = 2
    /\ current_rank = 4
    /\ alt_to_rank["Alt_1"] = 2
    /\ alt_to_rank["Alt_2"] = 5
    /\ alt_to_rank["Alt_3"] = 5

\* C2: every alternative of the document's list that does not occur in the
\* ranking's order gets the rank len(alternatives), wherever the counter stands.
C2_MissingGetWorstRank ==
    (pc = "next_ranking" /\ ridx >= 1) =>
        \A j \in 1..Len(data.alternatives) :
            data.alternatives[j] \notin Members(data.rankings[ridx].order) =>
                /\ alt_to_rank[data.alternatives[j]] = 2 * Len(data.alternatives)
                /\ scores[j] = <<2 * Len(data.alternatives)>>

\* the order Alt_1 over three alternatives: the counter stands at 2, Alt_2 and Alt_3 get 3
C2_Witness ==
    /\ pc = "next_ranking"
    /\ ridx >= 1
    /\ Len(data.alternatives) = 3
    /\ order = <<BareName("Alt_1")>>
    /\ current_rank = 2
    /\ alt_to_rank["Alt_2"] = 6
    /\ alt_to_rank["Alt_3"] = 6

Occurrences(o, a) == {j \in 1..Len(o) : \E m \in 1..Len(o[j].alts) : o[j].alts[m] = a}

LastOccurrence(o, a) == CHOOSE j \in Occurrences(o, a) : \A i \in Occurrences(o, a) : i <= j

DerivedRank(o, a, n) ==
    IF Occurrences(o, a) = {} THEN 2 * n
    ELSE 2 * (1 + MemberCount(SubSeq(o, 1, LastOccurrence(o, a) - 1)))
         + (Len(o[LastOccurrence(o, a)].alts) - 1)

\* C4: in every DM entry scores has len(alternatives) entries, each of one
\* element, the j-th holding the derived rank of the j-th alternative of the
\* document's list.  The entries just appended are those of ranking ridx.
C4_ScoresInDocumentOrder ==
    /\ \A d \in 1..Len(dms) :
          /\ Len(dms[d].scores) = Len(data.alternatives)
          /\ \A j \in 1..Len(data.alternatives) : Len(dms[d].scores[j]) = 1
    /\ (pc = "next_ranking" /\ ridx >= 1) =>
          \A d \in (Len(dms) - Copies(data.rankings[ridx].voters) + 1)..Len(dms) :
              \A j \in 1..Len(data.alternatives) :
                  dms[d].scores[j][1] =
                      DerivedRank(data.rankings[ridx].order, data.alternatives[j],
                                  Len(data.alternatives))
    /\ pc = "converted" => dass.dms = dms

\* the order Alt_3,Alt_1 over three alternatives gives the scores 2, 3, 1
C4_Witness ==
    /\ pc = "converted"
    /\ Len(dass.alternatives) = 3
    /\ ridx >= 1
    /\ data.rankings[ridx].order = <<BareName("Alt_3"), BareName("Alt_1")>>
    /\ data.rankings[ridx].voters = 2
    /\ dass.dms[Len(dass.dms)].scores = <<<<4>>, <<6>>, <<2>>>>

(***************************************************************************)
(* Properties of parse_preflib and of main's two calls (SpecMain).         *)
(***************************************************************************)
\* the same text but for the case of its letters
SameIgnoringCase(a, b) ==
    /\ Len(a) = Len(b)
    /\ \A k \in 1..Len(a) :
          \/ a[k] = b[k]
          \/ \E j \in 1..26 : {a[k], b[k]} = {UpperLetters[j], LowerLetters[j]}

IsOrdinalSuffix(sfx) == \E o \in OrdinalSuffixes : SameIgnoringCase(sfx, o)

\* C9: the reader is chosen from the lower-cased suffix alone: soc, soi, toc and
\* toi go to the ordinal reader, cat to the categorical one, wmd to the
\* matching one; any other suffix raises the unsupported-format error, no
\* reader runs and no document is returned.
C9_DispatchBySuffix ==
    pc # "dispatch" =>
        /\ reader = "ordinal" <=> IsOrdinalSuffix(suffix)
        /\ reader = "categorical" <=> SameIgnoringCase(suffix, CatSuffix)
        /\ reader = "matching" <=> SameIgnoringCase(suffix, WmdSuffix)
        /\ reader = "none" =>
              /\ pc = "raised"
              /\ error = UnsupportedFormat
              /\ lines = <<>>
              /\ result = NoDoc
              /\ data = NoDoc
              /\ dass = NoDoc

\* a file named .SOC read by the ordinal reader
C9_Witness ==
    /\ suffix = <<".", "S", "O", "C">>
    /\ reader = "ordinal"
    /\ pc = "returned"
    /\ Len(result.rankings) = 1

\* C10: convert_to_dass raises the unsupported-conversion error, which is not
\* the dispatcher's unsupported-format error, and returns no DASS document
\* exactly when its argument has no rankings field; so on what parse_preflib
\* returns it goes on to a DASS document for the ordinal suffixes and raises
\* for .cat and .wmd files.
C10_ConversionNeedsRankings ==
    /\ UnsupportedConversion # UnsupportedFormat
    /\ (data # NoDoc /\ pc # "convert") =>
          IF "rankings" \in DOMAIN data
          THEN /\ pc \in {"next_ranking", "walk", "converted"}
               /\ error = "none"
               /\ IsOrdinalSuffix(suffix)
               /\ pc = "converted" => dass = DassDocument(data.alternatives, dms)
          ELSE /\ pc = "raised"
               /\ error = UnsupportedConversion
               /\ dass = NoDoc
               /\ SameIgnoringCase(suffix, CatSuffix) \/ SameIgnoringCase(suffix, WmdSuffix)
    /\ dass # NoDoc => "rankings" \in DOMAIN data

\* a .cat file's document refused by convert_to_dass
C10_Witness ==
    /\ suffix = CatSuffix
    /\ pc = "raised"
    /\ error = UnsupportedConversion
    /\ Len(result.preferences) = 1
    /\ data = result

(***************************************************************************)
(* Properties of the ordinal reader's records (SpecOrdinal).               *)
(***************************************************************************)
\* the headers of key among the first k - 1 lines, by position
HeadersBefore(ls, k, key) ==
    {j \in 1..(k - 1) : ls[j].kind = "header" /\ ls[j].hasSep /\ ls[j].key = key}

\* the number of alternatives declared above line k, 0 when none is
DeclaredBefore(ls, k) ==
    LET hs == HeadersBefore(ls, k, "number_alternatives")
    IN IF hs = {} THEN 0
       ELSE IntVal(ls[CHOOSE j \in hs : \A i \in hs : i <= j].value)

\* the name given above line k to alternative aid, its placeholder when none is
NameBefore(ls, k, aid) ==
    LET hs == {j \in HeadersBefore(ls, k, "alternative_name_") : IntVal(ls[j].arg) = aid}
    IN IF hs = {} THEN "Alt_" \o IntStr(aid)
       ELSE ls[CHOOSE j \in hs : \A i \in hs : i <= j].name

\* the order of line k with every id replaced by its name
NamedOrder(ls, k) ==
    LET ids == BodyOrderIds(ls[k])
    IN [j \in 1..Len(ids) |->
          [isList |-> ids[j].isList,
           alts |-> [m \in 1..Len(ids[j].ids) |-> NameBefore(ls, k, ids[j].ids[m])]]]

\* the body lines that parse and that the completeness filter lets through
KeptLines(ls, co) ==
    {k \in ParsedBodyLines(ls) :
        ~(co /\ MemberCount(NamedOrder(ls, k)) < DeclaredBefore(ls, k))}

\* the i-th smallest element of a set of positions
NthOf(S, i) == CHOOSE k \in S : Cardinality({j \in S : j <= k}) = i

\* C11: the reader never merges records: every body line that parses and passes
\* the completeness filter yields exactly one record, the records stand in file
\* order, and lines with the same order yield separate records, each with the
\* voters of its own line.
C11_OneRecordPerKeptLine ==
    /\ pc \in {"read", "returned"} =>
          LET kept == KeptLines(lines, complete_only)
          IN /\ Len(rankings) = Cardinality(kept)
             /\ \A i \in 1..Len(rankings) :
                   /\ rankings[i].voters = IntVal(lines[NthOf(kept, i)].voters)
                   /\ rankings[i].order = NamedOrder(lines, NthOf(kept, i))
    /\ pc = "returned" => result.rankings = rankings

\* two lines with the same order and different voters, returned as two records
C11_Witness ==
    /\ pc = "returned"
    /\ Len(lines) = 2
    /\ Len(result.rankings) = 2
    /\ result.rankings[1].order = result.rankings[2].order
    /\ result.rankings[1].order # <<>>
    /\ result.rankings[1].voters = 2
    /\ result.rankings[2].voters = 1

(***************************************************************************)
(* Properties of the categorical reader (SpecCategorical).                 *)
(***************************************************************************)
\* C12: in the returned document every preference record's categories mapping
\* has a key for every name of the document's categories list, whatever number
\* of category slots its body line holds.
C12_EveryCategoryIsKey ==
    (pc = "returned" /\ reader = "categorical") =>
        \A p \in 1..Len(result.preferences) :
            \A i \in 1..Len(result.categories) :
                result.categories[i] \in DOMAIN result.preferences[p].categories

(***************************************************************************)
(* Properties of the matching reader (SpecMatching).                       *)
(***************************************************************************)
\* a text without its surrounding blanks and without one leading sign
Magnitude(t) ==
    LET u == strip(t) IN IF u # <<>> /\ u[1] \in {"+", "-"} THEN Tail(u) ELSE u

\* an integer numeral: digits, at least one
IsIntegerText(t) ==
    /\ Magnitude(t) # <<>>
    /\ \A k \in 1..Len(Magnitude(t)) : Magnitude(t)[k] \in Digits

\* a decimal numeral: digits and at most one '.', at least one digit
IsNumberText(t) ==
    LET u == Magnitude(t)
    IN /\ \A k \in 1..Len(u) : u[k] \in Digits \cup {"."}
       /\ Cardinality({k \in 1..Len(u) : u[k] = "."}) <= 1
       /\ \E k \in 1..Len(u) : u[k] \in Digits

\* the rows of the file that are three fields integer, integer, number
EdgeRows(ls) ==
    {k \in 1..Len(ls) :
        /\ ls[k].kind # "header"
        /\ Len(ls[k].parts) = 3
        /\ IsIntegerText(ls[k].parts[1])
        /\ IsIntegerText(ls[k].parts[2])
        /\ IsNumberText(ls[k].parts[3])}

\* C13: a row that is no header yields an edge exactly when it splits at ',' into
\* three fields of which the first two parse as integers and the third as a
\* number; every other row is skipped; the edges stand in file order, equal
\* rows giving equal edges twice, and metadata.num_edges is the number of edges
\* produced whatever a number_edges header declares.
C13_EdgePerWellFormedRow ==
    /\ (pc \in {"read", "returned"} /\ reader = "matching") =>
          LET rows == EdgeRows(lines)
          IN /\ Len(edges) = Cardinality(rows)
             /\ \A i \in 1..Len(edges) :
                   LET l == lines[NthOf(rows, i)]
                   IN /\ edges[i].source =
                            NameBefore(lines, NthOf(rows, i), IntVal(l.parts[1]))
                      /\ edges[i].target =
                            NameBefore(lines, NthOf(rows, i), IntVal(l.parts[2]))
                      /\ edges[i].weight = FloatVal(l.parts[3])
    /\ (pc = "returned" /\ reader = "matching") =>
          /\ result.edges = edges
          /\ result.metadata.num_edges = Len(result.edges)

\* a file declaring nine edges and holding one: num_edges is 1
C13_Witness ==
    /\ pc = "returned"
    /\ reader = "matching"
    /\ Len(lines) = 2
    /\ lines[1].key = "number_edges"
    /\ metadata["num_edges"] = 9
    /\ Len(result.edges) = 1
    /\ result.edges[1].weight = <<1, 0>>
    /\ result.metadata.num_edges = 1

(***************************************************************************)
(* Further properties of the ordinal reader (SpecOrdinal).                 *)
(***************************************************************************)
\* C14: in the returned document every ranking record's voters is a positive
\* integer, whatever the file holds.
C14_VotersPositive ==
    (pc = "returned" /\ reader = "ordinal") =>
        \A k \in 1..Len(result.rankings) : result.rankings[k].voters >= 1

(***************************************************************************)
(* Properties of parse_order_string (SpecOrder).                           *)
(***************************************************************************)
\* the number of '{' less the number of '}' among the first k characters
RECURSIVE Depth(_, _)
Depth(s, k) ==
    IF k = 0 THEN 0
    ELSE Depth(s, k - 1) + (IF s[k] = "{" THEN 1 ELSE IF s[k] = "}" THEN 0 - 1 ELSE 0)

\* every '}' closes an open '{' and no '{' stays open
Balanced(s) == Depth(s, Len(s)) = 0 /\ \A k \in 1..Len(s) : Depth(s, k) >= 0

\* where the first parse returned, the parse of its serialisation gives the same
RoundTripWhereParsed == reparsed # NoDoc => reparsed = parsed

\* C15: for every order-string with balanced braces the parse is idempotent under
\* round trip: the first parse gives a structure, and parsing that structure
\* written back in comma and brace notation gives the same structure.
C15_RoundTripIdempotent ==
    (Balanced(order_str) /\ parsed # NoDoc) => parsed.ok /\ RoundTripWhereParsed

\* the positions where a run of digits and '-' starts
IsNumChar(c) == c \in Digits \cup {"-"}

RunStarts(s) == {i \in 1..Len(s) : IsNumChar(s[i]) /\ (i = 1 \/ ~IsNumChar(s[i - 1]))}

\* the run that starts at i
RunAt(s, i) ==
    LET e == CHOOSE j \in i..Len(s) :
                 /\ \A k \in i..j : IsNumChar(s[k])
                 /\ j = Len(s) \/ ~IsNumChar(s[j + 1])
    IN SubSeq(s, i, e)

RunValue(r) == IF r[1] = "-" THEN 0 - DecimalValue(Tail(r)) ELSE DecimalValue(r)

BraceFree(s) == \A k \in 1..Len(s) : s[k] \notin {"{", "}"}

\* C17: parse_order_string never raises, whatever the string holds; outside
\* braces every run of digits with an optional leading '-' becomes one integer
\* token, and separators and all other characters are skipped.
C17_NeverRaises ==
    parsed # NoDoc =>
        /\ parsed.ok
        /\ pc # "raised"
        /\ BraceFree(order_str) =>
              /\ Len(parsed.val) = Cardinality(RunStarts(order_str))
              /\ \A i \in 1..Len(parsed.val) :
                    parsed.val[i] =
                        Bare(RunValue(RunAt(order_str, NthOf(RunStarts(order_str), i))))

\* the token rule of C17 alone, on the strings the parse returns for
TokensWhereParsed ==
    (parsed # NoDoc /\ parsed.ok /\ BraceFree(order_str)) =>
        /\ Len(parsed.val) = Cardinality(RunStarts(order_str))
        /\ \A i \in 1..Len(parsed.val) :
              parsed.val[i] = Bare(RunValue(RunAt(order_str, NthOf(RunStarts(order_str), i))))

(***************************************************************************)
(* Empty tie groups in the ordinal reader (SpecOrdinal).                   *)
(***************************************************************************)
\* the body lines whose order is the empty group {} after a leading integer
EmptyGroupLines(ls) ==
    {k \in 1..Len(ls) :
        /\ ls[k].kind = "body"
        /\ IsIntegerText(ls[k].voters)
        /\ strip(ls[k].order) = <<"{", "}">>}

\* C16: an empty tie group {} is accepted and parsed as an entry with zero
\* members, which adds zero to the member count of the completeness check; the
\* body line holding it still yields a ranking record.
C16_EmptyGroupAccepted ==
    (pc \in {"read", "returned"} /\ reader = "ordinal" /\ ~complete_only) =>
        \A k \in EmptyGroupLines(lines) :
            /\ parse_order_string(lines[k].order).ok
            /\ \E i \in 1..Len(rankings) :
                  /\ rankings[i].voters = IntVal(lines[k].voters)
                  /\ rankings[i].order = <<TieNames(<<>>)>>
                  /\ MemberCount(rankings[i].order) = 0

(***************************************************************************)
(* Rank sums in convert_to_dass (SpecDass).  Ranks are doubled.            *)
(***************************************************************************)
RECURSIVE SumScores(_)
SumScores(sc) == IF sc = <<>> THEN 0 ELSE Head(sc)[1] + SumScores(Tail(sc))

\* the order names every alternative of alts exactly once and nothing else
RanksAllOnce(o, alts) ==
    /\ MemberCount(o) = Len(alts)
    /\ Members(o) = {alts[j] : j \in 1..Len(alts)}
    /\ Cardinality(Members(o)) = Len(alts)

\* every alternative of alts is named by the order exactly once; the order may
\* name others as well
EachNamedOnce(o, alts) ==
    \A j \in 1..Len(alts) :
        Cardinality({e \in 1..Len(o) : \E m \in 1..Len(o[e].alts) : o[e].alts[m] = alts[j]}) = 1
        /\ \A e \in 1..Len(o) :
              Cardinality({m \in 1..Len(o[e].alts) : o[e].alts[m] = alts[j]}) <= 1

\* C18 as stated: for every ranking whose order names each of the document's N
\* alternatives exactly once, bare or in a tie group, the derived ranks sum to
\* N(N+1)/2 whatever the grouping, and every rank lies between 1 and N.
C18_RankSumWhenEachNamedOnce ==
    (pc = "next_ranking" /\ ridx >= 1
        /\ EachNamedOnce(data.rankings[ridx].order, data.alternatives)) =>
        LET N == Len(data.alternatives)
        IN /\ SumScores(scores) = N * (N + 1)
           /\ \A j \in 1..N : 2 <= scores[j][1] /\ scores[j][1] <= 2 * N

\* C18, amended: for every ranking whose order names each of the document's N
\* alternatives exactly once and names nothing else, the derived ranks sum to
\* N(N+1)/2 whatever the grouping, and every rank lies between 1 and N.
C18_RankSumOfCompleteRanking ==
    (pc = "next_ranking" /\ ridx >= 1
        /\ RanksAllOnce(data.rankings[ridx].order, data.alternatives)) =>
        LET N == Len(data.alternatives)
        IN /\ SumScores(scores) = N * (N + 1)
           /\ \A j \in 1..N : 2 <= scores[j][1] /\ scores[j][1] <= 2 * N

\* Alt_2,{Alt_1,Alt_3} over three alternatives: ranks 2.5, 1, 2.5, sum 6
C18_Witness ==
    /\ pc = "next_ranking"
    /\ ridx >= 1
    /\ Len(data.alternatives) = 3
    /\ data.rankings[ridx].order = <<BareName("Alt_2"), TieNames(<<"Alt_1", "Alt_3">>)>>
    /\ scores = <<<<5>>, <<2>>, <<5>>>>

(***************************************************************************)
(* Properties of RankingGenerator.generate (SpecGenerator).                *)
(***************************************************************************)
\* o holds the elements of alts, each as often as alts does
IsPermutationOf(o, alts) ==
    /\ Len(o) = Len(alts)
    /\ \A x \in {alts[j] : j \in 1..Len(alts)} \cup {o[j] : j \in 1..Len(o)} :
          Cardinality({j \in 1..Len(o) : o[j] = x})
              = Cardinality({j \in 1..Len(alts) : alts[j] = x})

\* what C19 says of the returned records
GeneratedRecordsSound ==
    /\ \A a, b \in 1..Len(self.rankings) :
          a # b => self.rankings[a].order # self.rankings[b].order
    /\ \A k \in 1..Len(self.rankings) :
          /\ IsPermutationOf(self.rankings[k].order, self.alternatives)
          /\ self.rankings[k].voters >= 1
    /\ SumVoters(self.rankings) = self.num_experts

\* C19 as stated: for every outcome of the random choices generate() returns
\* records whose orders are pairwise distinct permutations of the generator's
\* alternatives and whose voters are each at least 1 and sum to num_experts.
C19_GeneratedRecords == pc = "generated" => GeneratedRecordsSound

\* C19, amended: the same for every generator whose num_experts is not negative.
C19_GeneratedRecordsOfExperts ==
    (pc = "generated" /\ self.num_experts >= 0) => GeneratedRecordsSound

\* two experts who drew the same ranking of three alternatives: one record, voters 2
C19_Witness ==
    /\ pc = "generated"
    /\ self.num_experts = 2
    /\ Len(self.alternatives) = 3
    /\ self.consensus_level = 0
    /\ rankings_raw[1] = rankings_raw[2]
    /\ rankings_raw[1] # self.cluster_centers[1]
    /\ Len(self.rankings) = 1
    /\ self.rankings[1].voters = 2

=============================================================================
